---- MODULE Spec2Model ----
(***************************************************************************)
(* Model of ml_models/crop_health_model.py (class CropHealthAnalyzer).     *)
(*                                                                         *)
(* Every method of the class is a function of its arguments, so the state  *)
(* is the last call: which method ran (op), its arguments (args), the      *)
(* value it returned (ret) and the exception it raised (err).  A behaviour *)
(* is one call on a freshly constructed analyzer (op = "init").            *)
(*                                                                         *)
(* Numbers.  Python floats are modelled by exact values:                   *)
(*   - scores, means, slopes are rationals [num, den] (den > 0, reduced),  *)
(*     the float NaN is the record 0/0;                                    *)
(*   - the index values of preprocess_satellite_image are fractions of     *)
(*     polynomials in 1e-8, with n/0 for NaN and the infinities.           *)
(* Rounding error of float64 is not modelled.                              *)
(***************************************************************************)
EXTENDS Integers, Sequences, FiniteSets, TLC

VARIABLES op, args, ret, err

vars == <<op, args, ret, err>>

(* ret when the call raised: nothing was returned. *)
None == [none |-> TRUE]
NoErr == "none"
NaN == [num |-> 0, den |-> 0]

----------------------------------------------------------------------------
(* Exact rational arithmetic standing for float arithmetic.                *)

Abs(x) == IF x < 0 THEN -x ELSE x

RECURSIVE GCD(_, _)
GCD(a, b) == IF b = 0 THEN a ELSE GCD(b, a % b)

Rat(n, d) ==
    LET s == IF d < 0 THEN -1 ELSE 1
        g == GCD(Abs(n), Abs(d))
    IN  [num |-> (s * n) \div g, den |-> (s * d) \div g]

RInt(k) == [num |-> k, den |-> 1]
RAdd(a, b) == Rat(a.num * b.den + b.num * a.den, a.den * b.den)
RSub(a, b) == Rat(a.num * b.den - b.num * a.den, a.den * b.den)
RMul(a, b) == Rat(a.num * b.num, a.den * b.den)
RDivInt(a, k) == Rat(a.num, a.den * k)
RPos(a) == a.num > 0
RLt(a, b) ==
    LET g == GCD(a.den, b.den)
    IN  a.num * (b.den \div g) < b.num * (a.den \div g)
RAbs(a) == [num |-> Abs(a.num), den |-> a.den]

(* Float comparisons: every comparison with NaN is False. *)
FLt(a, b) == a # NaN /\ b # NaN /\ RLt(a, b)
FGt(a, b) == FLt(b, a)
FAbs(a) == IF a = NaN THEN NaN ELSE RAbs(a)

RECURSIVE SumSeq(_)
SumSeq(s) == IF s = <<>> THEN RInt(0) ELSE RAdd(Head(s), SumSeq(Tail(s)))

----------------------------------------------------------------------------
(* Arithmetic of preprocess_satellite_image.  Its values are rational      *)
(* functions of the band values and of eps = 1e-8.  A polynomial in eps    *)
(* with integer coefficients is the sequence of its coefficients, lowest   *)
(* power first; a value is a fraction n/d of two such polynomials, d > 0.  *)
(* Because every coefficient stays far below 1/eps, the sign of a          *)
(* polynomial is the sign of its lowest non-zero coefficient, so every     *)
(* comparison below is exact.  The non-finite floats are fractions with a  *)
(* zero denominator: 0/0 is NaN, 1/0 is +Inf, -1/0 is -Inf.                *)

Sign(k) == IF k > 0 THEN 1 ELSE IF k < 0 THEN -1 ELSE 0

Coef(p, k) == IF k \in 1..Len(p) THEN p[k] ELSE 0

PAdd(p, q) ==
    [k \in 1..(IF Len(p) > Len(q) THEN Len(p) ELSE Len(q)) |->
        Coef(p, k) + Coef(q, k)]

PScale(c, p) == [k \in 1..Len(p) |-> c * p[k]]

PSub(p, q) == PAdd(p, PScale(-1, q))

RECURSIVE SumInts(_, _, _)
SumInts(f, lo, hi) == IF lo > hi THEN 0 ELSE f[lo] + SumInts(f, lo + 1, hi)

PMul(p, q) ==
    [k \in 1..(Len(p) + Len(q) - 1) |->
        SumInts([i \in 1..k |-> Coef(p, i) * Coef(q, k + 1 - i)], 1, k)]

RECURSIVE PSignFrom(_, _)
PSignFrom(p, k) ==
    IF k > Len(p) THEN 0
    ELSE IF p[k] # 0 THEN Sign(p[k])
    ELSE PSignFrom(p, k + 1)

PSign(p) == PSignFrom(p, 1)

(* eps = 1e-8 *)
EpsPoly == <<0, 1>>

RECURSIVE GCDAll(_, _)
GCDAll(p, k) == IF k > Len(p) THEN 0 ELSE GCD(Abs(p[k]), GCDAll(p, k + 1))

(* drop trailing zero coefficients *)
RECURSIVE PTrim(_)
PTrim(p) ==
    IF Len(p) > 1 /\ p[Len(p)] = 0 THEN PTrim(SubSeq(p, 1, Len(p) - 1)) ELSE p

(* the fraction n/d with a positive denominator and no common integer factor *)
Frac(n, d) ==
    LET sg == PSign(d)
        g0 == GCD(GCDAll(n, 1), GCDAll(d, 1))
        g == IF g0 = 0 THEN 1 ELSE g0
    IN  IF sg = 0 THEN [n |-> <<PSign(n)>>, d |-> <<0>>]
        ELSE [n |-> PTrim([k \in 1..Len(n) |-> (sg * n[k]) \div g]),
              d |-> PTrim([k \in 1..Len(d) |-> (sg * d[k]) \div g])]

XInt(k) == [n |-> <<k>>, d |-> <<1>>]
XHalves(k) == Frac(<<k>>, <<2>>)
XNaN == [n |-> <<0>>, d |-> <<0>>]
XInf(sg) == [n |-> <<sg>>, d |-> <<0>>]

IsFinite(x) == PSign(x.d) # 0
IsNaN(x) == PSign(x.d) = 0 /\ PSign(x.n) = 0
XSign(x) == PSign(x.n)

XNeg(x) == [n |-> PScale(-1, x.n), d |-> x.d]

(* a + b in float arithmetic: inf + (-inf) and anything with NaN is NaN *)
XAdd(a, b) ==
    IF IsNaN(a) \/ IsNaN(b) THEN XNaN
    ELSE IF IsFinite(a) /\ IsFinite(b)
         THEN Frac(PAdd(PMul(a.n, b.d), PMul(b.n, a.d)), PMul(a.d, b.d))
    ELSE IF IsFinite(a) THEN b
    ELSE IF IsFinite(b) THEN a
    ELSE IF XSign(a) = XSign(b) THEN a
    ELSE XNaN

XSubtract(a, b) == XAdd(a, XNeg(b))

XMul(a, b) ==
    IF IsNaN(a) \/ IsNaN(b) THEN XNaN
    ELSE IF IsFinite(a) /\ IsFinite(b)
         THEN Frac(PMul(a.n, b.n), PMul(a.d, b.d))
    ELSE IF XSign(a) = 0 \/ XSign(b) = 0 THEN XNaN
    ELSE XInf(XSign(a) * XSign(b))

(* a / b in numpy float arithmetic: no exception, x/0 is +-inf, 0/0 is NaN *)
(* (an exactly cancelling sum is +0.0, so the sign is that of a)           *)
XDivide(a, b) ==
    IF IsNaN(a) \/ IsNaN(b) THEN XNaN
    ELSE IF IsFinite(a) /\ IsFinite(b)
         THEN IF XSign(b) = 0
              THEN (IF XSign(a) = 0 THEN XNaN ELSE XInf(XSign(a)))
              ELSE Frac(PMul(a.n, b.d), PMul(a.d, b.n))
    ELSE IF IsFinite(a) THEN XInt(0)
    ELSE IF IsFinite(b) THEN XInf(XSign(a) * (IF XSign(b) < 0 THEN -1 ELSE 1))
    ELSE XNaN

(* a < b; False when either is NaN *)
XLess(a, b) ==
    /\ ~IsNaN(a)
    /\ ~IsNaN(b)
    /\ IF IsFinite(a) /\ IsFinite(b)
       THEN PSign(PSub(PMul(a.n, b.d), PMul(b.n, a.d))) < 0
       ELSE IF IsFinite(a) THEN XSign(b) > 0
       ELSE IF IsFinite(b) THEN XSign(a) < 0
       ELSE XSign(a) < XSign(b)

XEqual(a, b) == ~IsNaN(a) /\ ~IsNaN(b) /\ ~XLess(a, b) /\ ~XLess(b, a)

Eps == [n |-> EpsPoly, d |-> <<1>>]

(* np.min / np.max over all the values of an array: NaN if any is NaN *)
ArrayMin(vals) ==
    IF \E i \in 1..Len(vals) : IsNaN(vals[i]) THEN XNaN
    ELSE vals[CHOOSE i \in 1..Len(vals) :
                  \A j \in 1..Len(vals) : ~XLess(vals[j], vals[i])]

ArrayMax(vals) ==
    IF \E i \in 1..Len(vals) : IsNaN(vals[i]) THEN XNaN
    ELSE vals[CHOOSE i \in 1..Len(vals) :
                  \A j \in 1..Len(vals) : ~XLess(vals[i], vals[j])]

----------------------------------------------------------------------------
(* preprocess_satellite_image.  bands is the array np.array(image), as the *)
(* sequence of its pixels, each the sequence of its band values.           *)

NumBands(bands) == Len(bands[1])

(* bands[:, :, k].astype(float); raises IndexError when k is out of bounds *)
HasBand(bands, k) == k < NumBands(bands)
Band(bands, k) == [p \in 1..Len(bands) |-> XInt(bands[p][k + 1])]

(* ndvi = (nir - red) / (nir + red + 1e-8) *)
Ndvi(nir, red) ==
    [p \in 1..Len(nir) |->
        XDivide(XSubtract(nir[p], red[p]), XAdd(XAdd(nir[p], red[p]), Eps))]

(* evi = 2.5 * ((nir - red) / (nir + 6 * red - 7.5 * blue + 1)) *)
Evi(nir, red, blue) ==
    [p \in 1..Len(nir) |->
        XMul(XHalves(5),
             XDivide(XSubtract(nir[p], red[p]),
                     XAdd(XSubtract(XAdd(nir[p], XMul(XInt(6), red[p])),
                                    XMul(XHalves(15), blue[p])),
                          XInt(1))))]

(* (indices - np.min(indices)) / (np.max(indices) - np.min(indices) + 1e-8) *)
(* with the minimum and maximum taken over the whole stacked array          *)
Normalize(ndvi, evi) ==
    LET lo == ArrayMin(ndvi \o evi)
        hi == ArrayMax(ndvi \o evi)
        span == XAdd(XSubtract(hi, lo), Eps)
        Scaled(ch) == [p \in 1..Len(ch) |-> XDivide(XSubtract(ch[p], lo), span)]
    IN  [ndvi |-> Scaled(ndvi), evi |-> Scaled(evi)]

(* Variant: missing bands read as 0 instead of raising. *)
PreprocessZeroFilled(bands) ==
    LET filled == [p \in 1..Len(bands) |->
                      [k \in 1..4 |-> IF k <= Len(bands[p]) THEN bands[p][k] ELSE 0]]
        nir == Band(filled, 3)
        red == Band(filled, 2)
        blue == Band(filled, 0)
    IN  [ret |-> Normalize(Ndvi(nir, red), Evi(nir, red, blue)), err |-> NoErr]

(* The outcome [ret, err] of preprocess_satellite_image on the array bands; *)
(* ret is the stack of the two channels.                                    *)
PreprocessSatelliteImage(bands) ==
    IF ~HasBand(bands, 3) \/ ~HasBand(bands, 2) \/ ~HasBand(bands, 0)
    THEN [ret |-> None, err |-> "IndexError"]
    ELSE LET nir == Band(bands, 3)
             red == Band(bands, 2)
             blue == Band(bands, 0)
         IN  [ret |-> Normalize(Ndvi(nir, red), Evi(nir, red, blue)),
              err |-> NoErr]

----------------------------------------------------------------------------
(* analyze_health_trends                                                   *)

(* np.mean(scores): the mean of an empty array is NaN (with a warning). *)
Mean(scores) ==
    IF Len(scores) = 0 THEN NaN ELSE RDivInt(SumSeq(scores), Len(scores))

(* np.std(scores) ** 2: the population variance, mean of squared deviations. *)
Variance(scores) ==
    LET m == Mean(scores)
        sq == [i \in 1..Len(scores) |->
                  RMul(RSub(scores[i], m), RSub(scores[i], m))]
    IN  RDivInt(SumSeq(sq), Len(scores))

(* np.polyfit(range(len(scores)), scores, 1)[0]: the set of outcomes.      *)
(*   length 0: polyfit raises TypeError (expected non-empty vector for x); *)
(*   length 1: the column of x values is all zero, its scaling divides 0   *)
(*             by 0 and the least-squares solve runs on NaN: depending on  *)
(*             the LAPACK build it raises LinAlgError or yields NaN;       *)
(*   length >= 2: the least-squares slope over positions 0..n-1, as the    *)
(*             exact rational (the rounding of the solve is not modelled). *)
PolyfitSlope(scores) ==
    LET n == Len(scores)
        xs == [i \in 1..n |-> RInt(i - 1)]
        sx == SumSeq(xs)
        sy == SumSeq(scores)
        sxy == SumSeq([i \in 1..n |-> RMul(xs[i], scores[i])])
        sxx == SumSeq([i \in 1..n |-> RMul(xs[i], xs[i])])
        top == RSub(RMul(RInt(n), sxy), RMul(sx, sy))
        bot == RSub(RMul(RInt(n), sxx), RMul(sx, sx))
    IN  IF n = 0 THEN {[err |-> "TypeError", slope |-> NaN]}
        ELSE IF n = 1 THEN {[err |-> "LinAlgError", slope |-> NaN],
                            [err |-> NoErr, slope |-> NaN]}
        ELSE {[err |-> NoErr,
               slope |-> Rat(top.num * bot.den, top.den * bot.num)]}

(* threshold = mean_health - 2 * np.std(scores), kept as the pair          *)
(* (mean, variance) because the standard deviation is a square root.       *)
Threshold(scores) == [mean |-> Mean(scores), var |-> Variance(scores)]

(* Variant: score <= factor * threshold. *)
LeScaledThreshold(score, th, factor) ==
    LET d == RSub(RMul(factor, th.mean), score)
    IN  /\ ~RPos(RSub(RInt(0), d))
        /\ ~RLt(RMul(d, d), RMul(RMul(RInt(4), RMul(factor, factor)), th.var))

(* score < factor * threshold, i.e. score < factor*(mean - 2*sqrt(var))    *)
(* for a factor > 0, decided exactly:                                      *)
(*     2*factor*sqrt(var) < factor*mean - score                            *)
(* <=> factor*mean - score > 0  /\  4*factor^2*var < (factor*mean-score)^2 *)
LtScaledThreshold(score, th, factor) ==
    LET d == RSub(RMul(factor, th.mean), score)
    IN  /\ RPos(d)
        /\ RLt(RMul(RMul(RInt(4), RMul(factor, factor)), th.var), RMul(d, d))

(* score < threshold *)
LtThreshold(score, th) == LtScaledThreshold(score, th, RInt(1))

(* 'high' if score < threshold * 0.8 else 'medium' *)
Severity(score, th) ==
    IF LtScaledThreshold(score, th, Rat(4, 5)) THEN "high" ELSE "medium"

(* dates[i] of the anomaly record raises IndexError past the end of dates *)
HasDate(dates, i) == i \in 1..Len(dates)

IndexErrorMark == [raised |-> "IndexError"]

(* Variant: each anomaly is put in front of those found before it. *)
RECURSIVE AnomalyLoopPrepend(_, _, _, _, _)
AnomalyLoopPrepend(scores, dates, th, i, anomalies) ==
    IF i > Len(scores) THEN anomalies
    ELSE IF ~LtThreshold(scores[i], th)
         THEN AnomalyLoopPrepend(scores, dates, th, i + 1, anomalies)
    ELSE IF ~HasDate(dates, i) THEN <<IndexErrorMark>>
    ELSE AnomalyLoopPrepend(scores, dates, th, i + 1,
             <<[date |-> dates[i],
                score |-> scores[i],
                severity |-> Severity(scores[i], th)]>> \o anomalies)

(* for i, score in enumerate(scores): if score < threshold: append(...)    *)
RECURSIVE AnomalyLoop(_, _, _, _, _)
AnomalyLoop(scores, dates, th, i, anomalies) ==
    IF i > Len(scores) THEN anomalies
    ELSE IF ~LtThreshold(scores[i], th)
         THEN AnomalyLoop(scores, dates, th, i + 1, anomalies)
    ELSE IF ~HasDate(dates, i) THEN <<IndexErrorMark>>
    ELSE AnomalyLoop(scores, dates, th, i + 1,
             Append(anomalies, [date |-> dates[i],
                                score |-> scores[i],
                                severity |-> Severity(scores[i], th)]))

(* Variant: a slope of exactly 0 counts as improving. *)
TrendLabelZeroImproving(trend) ==
    IF trend # NaN /\ ~FLt(trend, RInt(0)) THEN "improving" ELSE "declining"

(* 'improving' if trend > 0 else 'declining' *)
TrendLabel(trend) == IF FGt(trend, RInt(0)) THEN "improving" ELSE "declining"

(* The outcomes [ret, err] of analyze_health_trends(health_scores, dates). *)
AnalyzeHealthTrends(health_scores, dates) ==
    LET scores == health_scores
        mean_health == Mean(scores)
        Outcome(fit) ==
            IF fit.err # NoErr
            THEN [ret |-> None, err |-> fit.err]
            ELSE LET anomalies ==
                         AnomalyLoop(scores, dates, Threshold(scores), 1, <<>>)
                 IN  IF anomalies = <<IndexErrorMark>>
                     THEN [ret |-> None, err |-> "IndexError"]
                     ELSE [ret |-> [mean_health |-> mean_health,
                                    trend |-> TrendLabel(fit.slope),
                                    trend_rate |-> fit.slope,
                                    anomalies |-> anomalies],
                           err |-> NoErr]
    IN  {Outcome(fit) : fit \in PolyfitSlope(scores)}

----------------------------------------------------------------------------
(* generate_recommendations                                                *)

IrrigationRec ==
    [priority |-> "high", type |-> "irrigation",
     message |-> <<"Critical: Low vegetation health detected. Immediate irrigation recommended.">>,
     action |-> "Check soil moisture and irrigate within 24 hours"]

InspectionRec ==
    [priority |-> "medium", type |-> "inspection",
     message |-> <<"Declining crop health trend detected.">>,
     action |-> "Inspect field for pest/disease signs"]

(* the message is the f-string "Severe health drop detected on {date}" *)
InterventionRec(anomaly) ==
    [priority |-> "high", type |-> "intervention",
     message |-> <<"Severe health drop detected on ", anomaly.date>>,
     action |-> "Investigate affected area immediately"]

(* if analysis['mean_health'] < 0.5 *)
LowHealth(analysis) == FLt(analysis.mean_health, Rat(1, 2))

(* Variant: the rate is compared without abs(). *)
DecliningFastSigned(analysis) ==
    /\ analysis.trend = "declining"
    /\ FGt(analysis.trend_rate, Rat(1, 10))

(* if analysis['trend'] == 'declining' and abs(analysis['trend_rate']) > 0.1 *)
DecliningFast(analysis) ==
    /\ analysis.trend = "declining"
    /\ FGt(FAbs(analysis.trend_rate), Rat(1, 10))

(* for anomaly in analysis['anomalies']: if anomaly['severity'] == 'high' *)
RECURSIVE AnomalyRecs(_, _)
AnomalyRecs(anomalies, recommendations) ==
    IF anomalies = <<>> THEN recommendations
    ELSE AnomalyRecs(Tail(anomalies),
             IF Head(anomalies).severity = "high"
             THEN Append(recommendations, InterventionRec(Head(anomalies)))
             ELSE recommendations)

GenerateRecommendations(analysis) ==
    LET r0 == <<>>
        r1 == IF LowHealth(analysis) THEN Append(r0, IrrigationRec) ELSE r0
        r2 == IF DecliningFast(analysis) THEN Append(r1, InspectionRec) ELSE r1
    IN  AnomalyRecs(analysis.anomalies, r2)

----------------------------------------------------------------------------
(* detect_crop_disease and get_treatment_recommendation                    *)

disease_classes ==
    <<"healthy", "bacterial_blight", "brown_spot",
      "leaf_blast", "tungro", "sheath_blight">>

(* np.argmax(predictions): the first position holding the maximum, 0-based *)
ArgMax(predictions) ==
    (CHOOSE i \in 1..Len(predictions) :
        /\ \A j \in 1..Len(predictions) : ~RLt(predictions[i], predictions[j])
        /\ \A j \in 1..(i - 1) : RLt(predictions[j], predictions[i])) - 1

(* the treatments table; a TreatmentPlan is a set of <<category, guidance>> *)
treatments ==
    [d \in {"bacterial_blight", "brown_spot"} |->
        IF d = "bacterial_blight"
        THEN {<<"chemical", "Streptomycin sulfate 90% + Tetracycline hydrochloride 10%">>,
              <<"dosage", "15g per 10 liters of water">>,
              <<"organic", "Neem oil spray (3-4ml/liter)">>,
              <<"cultural", "Remove infected plants, improve drainage">>}
        ELSE {<<"chemical", "Mancozeb 75% WP">>,
              <<"dosage", "2g per liter of water">>,
              <<"organic", "Trichoderma viride">>,
              <<"cultural", "Use resistant varieties, balanced fertilization">>}]

(* treatments.get(disease, {}) *)
GetTreatmentRecommendation(disease) ==
    IF disease \in DOMAIN treatments THEN treatments[disease] ELSE {}

(* self.estimate_severity(image_array, disease_idx): the class defines no  *)
(* estimate_severity, so the attribute lookup raises AttributeError.       *)
EstimateSeverity(disease_idx) == [err |-> "AttributeError"]

(* The outcome [ret, err] of detect_crop_disease, given the vector         *)
(* disease_model.predict(image_batch)[0].  The dict display of the second  *)
(* return evaluates 'severity' before 'treatment'.                         *)
DetectCropDisease(predictions) ==
    LET disease_idx == ArgMax(predictions)
        confidence == predictions[disease_idx + 1]
        severity == EstimateSeverity(disease_idx)
    IN  IF disease_idx = 0
        THEN [ret |-> [disease_detected |-> FALSE,
                       disease |-> "None",
                       confidence |-> confidence],
              err |-> NoErr]
        ELSE IF severity.err # NoErr
        THEN [ret |-> None, err |-> severity.err]
        ELSE [ret |-> [disease_detected |-> TRUE,
                       disease |-> disease_classes[disease_idx + 1],
                       confidence |-> confidence,
                       severity |-> severity.value,
                       treatment |-> GetTreatmentRecommendation(
                                         disease_classes[disease_idx + 1])],
              err |-> NoErr]

----------------------------------------------------------------------------
(* analyze_field_health.  imagery is what fetch_satellite_imagery returned  *)
(* (here the arrays of the images), model_out the value model.predict       *)
(* returns for each image in turn; both are collaborators outside the class.*)
(* The predictions are appended as the model returned them.                 *)
AnalyzeFieldHealth(imagery, model_out, date_range) ==
    LET processed == [i \in 1..Len(imagery) |-> PreprocessSatelliteImage(imagery[i])]
        predictions == [i \in 1..Len(imagery) |-> model_out[i]]
        Outcome(o) ==
            IF o.err # NoErr THEN [ret |-> None, err |-> o.err]
            ELSE [ret |-> [health_scores |-> predictions,
                           analysis |-> o.ret,
                           recommendations |-> GenerateRecommendations(o.ret)],
                  err |-> NoErr]
    IN  IF \E i \in 1..Len(imagery) : processed[i].err # NoErr
        THEN {[ret |-> None,
               err |-> processed[CHOOSE i \in 1..Len(imagery) :
                                    /\ processed[i].err # NoErr
                                    /\ \A j \in 1..(i - 1) : processed[j].err = NoErr].err]}
        ELSE {Outcome(o) : o \in AnalyzeHealthTrends(predictions, date_range)}

----------------------------------------------------------------------------
(* Inputs.  Scores and probabilities are tenths.                           *)

SmallLen == 5
MaxLen == 12
MaxAnomalies == 2

RECURSIVE SeqsUpTo(_, _)
SeqsUpTo(S, n) ==
    IF n = 0 THEN {<<>>}
    ELSE LET shorter == SeqsUpTo(S, n - 1)
         IN  shorter \cup {Append(q, x) : q \in {r \in shorter : Len(r) = n - 1}, x \in S}

Tenths(s) == [i \in 1..Len(s) |-> Rat(s[i], 10)]

(* scores a scorer can return, values outside [0,1] included *)
ScoreVals == {-2, 1, 5, 9}

(* long sequences: a steady level with at most two deviating observations *)
SpikeVals == {0, 1, 9}
Spiked ==
    {[k \in 1..n |-> IF k = i THEN a ELSE IF k = j THEN b ELSE 9] :
        n \in (SmallLen + 1)..MaxLen, i \in 1..MaxLen, j \in 1..MaxLen,
        a \in SpikeVals, b \in SpikeVals}

ScoreInputs == SeqsUpTo(ScoreVals, SmallLen) \cup Spiked

DateStarts == {1, 20}
Dates(d0, n) == [i \in 1..n |-> d0 + i - 1]

AnomalyInputs ==
    {[date |-> d, score |-> Rat(1, 10), severity |-> sv] :
        d \in {1, 2}, sv \in {"medium", "high"}}

ReportInputs ==
    {[mean_health |-> m, trend |-> t, trend_rate |-> r, anomalies |-> a] :
        m \in {Rat(3, 10), Rat(1, 2), Rat(7, 10)},
        t \in {"improving", "declining"},
        r \in {Rat(k, 10) : k \in -2..2} \cup {NaN},
        a \in SeqsUpTo(AnomalyInputs, MaxAnomalies)}

ProbVals == {1, 3, 6}
ProbInputs == [1..Len(disease_classes) -> {Rat(k, 10) : k \in ProbVals}]

(* rasters: 1..MaxPix pixels of 1..4 bands; green (band 1) is never read *)
MaxPix == 2
BandVals == {0, 1, 2}
BlueVals == {0, 2}
PixelsOf(nb) ==
    {px \in [1..nb -> BandVals] : px[1] \in BlueVals /\ (nb >= 2 => px[2] = 0)}
RasterInputs ==
    UNION {SeqsUpTo(PixelsOf(nb), MaxPix) \ {<<>>} : nb \in 1..4}

(* a field's imagery: up to MaxImages images, the model's output for each *)
MaxImages == 3
ImageInputs == {<< <<0, 0, 0, 1>>, <<0, 0, 1, 0>> >>, << <<0, 0, 1>> >>}
ModelOutVals == {-2, 5, 12}
DateRanges(n) == {Dates(1, n), <<1, 30>>}

----------------------------------------------------------------------------
Init ==
    /\ op = "init"
    /\ args = None
    /\ ret = None
    /\ err = NoErr

analyze_health_trends ==
    /\ op = "init"
    /\ \E hs \in ScoreInputs, d0 \in DateStarts :
        \E o \in AnalyzeHealthTrends(Tenths(hs), Dates(d0, Len(hs))) :
            /\ op' = "analyze_health_trends"
            /\ args' = [health_scores |-> Tenths(hs), dates |-> Dates(d0, Len(hs))]
            /\ ret' = o.ret
            /\ err' = o.err

generate_recommendations ==
    /\ op = "init"
    /\ \E analysis \in ReportInputs :
        /\ op' = "generate_recommendations"
        /\ args' = [analysis |-> analysis]
        /\ ret' = [recommendations |-> GenerateRecommendations(analysis)]
        /\ err' = NoErr

detect_crop_disease ==
    /\ op = "init"
    /\ \E predictions \in ProbInputs :
        \E o \in {DetectCropDisease(predictions)} :
            /\ op' = "detect_crop_disease"
            /\ args' = [predictions |-> predictions]
            /\ ret' = o.ret
            /\ err' = o.err

get_treatment_recommendation ==
    /\ op = "init"
    /\ \E disease \in {disease_classes[i] : i \in 1..Len(disease_classes)} \cup {"rust"} :
        /\ op' = "get_treatment_recommendation"
        /\ args' = [disease |-> disease]
        /\ ret' = [treatment |-> GetTreatmentRecommendation(disease)]
        /\ err' = NoErr

preprocess_satellite_image ==
    /\ op = "init"
    /\ \E bands \in RasterInputs :
        \E o \in {PreprocessSatelliteImage(bands)} :
            /\ op' = "preprocess_satellite_image"
            /\ args' = [bands |-> bands]
            /\ ret' = o.ret
            /\ err' = o.err

analyze_field_health ==
    /\ op = "init"
    /\ \E n \in 0..MaxImages :
        \E imagery \in [1..n -> ImageInputs], out \in [1..n -> ModelOutVals],
           date_range \in DateRanges(n) :
            \E o \in AnalyzeFieldHealth(imagery, Tenths(out), date_range) :
                /\ op' = "analyze_field_health"
                /\ args' = [imagery |-> imagery, model_out |-> Tenths(out),
                            date_range |-> date_range]
                /\ ret' = o.ret
                /\ err' = o.err

NextExtract == preprocess_satellite_image
SpecExtract == Init /\ [][NextExtract]_vars

NextTrend == analyze_health_trends
NextRecommend == generate_recommendations
NextDisease == detect_crop_disease \/ get_treatment_recommendation

SpecTrend == Init /\ [][NextTrend]_vars
SpecRecommend == Init /\ [][NextRecommend]_vars
SpecDisease == Init /\ [][NextDisease]_vars

NextPipeline == analyze_field_health
SpecPipeline == Init /\ [][NextPipeline]_vars

Next ==
    \/ preprocess_satellite_image
    \/ analyze_field_health
    \/ analyze_health_trends
    \/ generate_recommendations
    \/ detect_crop_disease
    \/ get_treatment_recommendation

Spec == Init /\ [][Next]_vars

----------------------------------------------------------------------------
(* Properties.                                                             *)

IsCall(name) == op = name

(* integer restatement of the statistics of a score sequence, in tenths:   *)
(* t[i] = 10*score[i], S = sum t, Q = sum t^2, V = n*Q - S^2 = (n*sigma)^2 *)
InTenths(r) == r.num * (10 \div r.den)
SumT(scores) == SumInts([i \in 1..Len(scores) |-> InTenths(scores[i])], 1, Len(scores))
SumTT(scores) ==
    SumInts([i \in 1..Len(scores) |-> InTenths(scores[i]) * InTenths(scores[i])],
            1, Len(scores))
VarT(scores) == Len(scores) * SumTT(scores) - SumT(scores) * SumT(scores)

(* score[i] < mean - 2*sigma  <=>  2*n*sigma < S - n*t[i] *)
BelowMeanMinus2Sigma(scores, i) ==
    LET gap == SumT(scores) - Len(scores) * InTenths(scores[i])
    IN  gap > 0 /\ 4 * VarT(scores) < gap * gap

(* score[i] < 0.8*(mean - 2*sigma)  <=>  8*n*sigma < 4*S - 5*n*t[i] *)
BelowScaledThreshold(scores, i) ==
    LET gap == 4 * SumT(scores) - 5 * Len(scores) * InTenths(scores[i])
    IN  gap > 0 /\ 64 * VarT(scores) < gap * gap

StrictlyIncreasing(scores) ==
    \A i \in 1..(Len(scores) - 1) : RLt(scores[i], scores[i + 1])
NonIncreasing(scores) ==
    \A i \in 1..(Len(scores) - 1) : ~RLt(scores[i], scores[i + 1])

(* sign of the least-squares slope: sum of (x[i] - mean x) * y[i],         *)
(* doubled, with x[i] = i - 1                                              *)
CenteredSum(scores) ==
    SumInts([i \in 1..Len(scores) |->
                (2 * (i - 1) - (Len(scores) - 1)) * InTenths(scores[i])],
            1, Len(scores))

(* C1 (as claimed): analyze on fewer than 2 observations fails with         *)
(* InsufficientDataError and returns no report.                             *)
C1_InsufficientDataError ==
    (IsCall("analyze_health_trends") /\ Len(args.health_scores) < 2)
        => (err = "InsufficientDataError" /\ ret = None)

AllFinite(indices) ==
    /\ \A p \in 1..Len(indices.ndvi) : IsFinite(indices.ndvi[p])
    /\ \A p \in 1..Len(indices.evi) : IsFinite(indices.evi[p])

(* C3 (as claimed): for a raster of at least 4 bands with finite values     *)
(* every value of the returned index raster is finite.                      *)
C3_OutputFinite ==
    (IsCall("preprocess_satellite_image") /\ NumBands(args.bands) >= 4)
        => (err = NoErr /\ AllFinite(ret))

ConstantChannel(ch) == \A p, q \in 1..Len(ch) : XEqual(ch[p], ch[q])

ChannelNormalized(ch) ==
    IF ConstantChannel(ch)
    THEN \A p \in 1..Len(ch) : XEqual(ch[p], XInt(0))
    ELSE /\ XEqual(ArrayMin(ch), XInt(0))
         /\ ~XLess(ArrayMax(ch), Frac(<<99>>, <<100>>))
         /\ ~XLess(XInt(1), ArrayMax(ch))

(* C4 (as claimed, on the rasters whose output is finite): each output      *)
(* channel that is not constant has minimum 0 and maximum 1 (to within      *)
(* 1/100) over that channel alone, and each constant channel is 0.          *)
C4_PerChannelNormalized ==
    (IsCall("preprocess_satellite_image") /\ err = NoErr /\ AllFinite(ret))
        => (ChannelNormalized(ret.ndvi) /\ ChannelNormalized(ret.evi))

C6_Example == Tenths(<<9, 9, 9, 9, 1>>)

(* C6 (as claimed): on [0.9,0.9,0.9,0.9,0.1] the anomalies are exactly the  *)
(* final observation, with severity high or medium.                         *)
C6_LastFlagged ==
    (IsCall("analyze_health_trends") /\ args.health_scores = C6_Example)
        => /\ err = NoErr
           /\ Len(ret.anomalies) = 1
           /\ ret.anomalies[1].score = Rat(1, 10)
           /\ ret.anomalies[1].date = args.dates[5]
           /\ ret.anomalies[1].severity \in {"high", "medium"}

(* C6 (amended): on [0.9,0.9,0.9,0.9,0.1] the mean is 0.74 and twice the    *)
(* population standard deviation is 0.64, so the threshold equals the final *)
(* score 0.1, which is not strictly below it: no anomaly is reported.       *)
C6_ThresholdEqualsLast ==
    (IsCall("analyze_health_trends") /\ args.health_scores = C6_Example)
        => /\ err = NoErr
           /\ ret.mean_health = Rat(74, 100)
           /\ 4 * VarT(C6_Example) = 32 * 32
           /\ SumT(C6_Example) - 5 * 1 = 32
           /\ ret.anomalies = <<>>

C6_ExampleAnalyzed ==
    /\ IsCall("analyze_health_trends")
    /\ args.health_scores = C6_Example
    /\ err = NoErr
    /\ ret.trend = "declining"

AnomalyPositions(scores) ==
    {i \in 1..Len(scores) : BelowMeanMinus2Sigma(scores, i)}

KthPosition(I, k) == CHOOSE i \in I : Cardinality({j \in I : j < i}) = k - 1

(* C7: the anomalies are exactly the observations strictly below            *)
(* mean - 2*sigma, in input order, each with its own date and score and     *)
(* with severity high iff its score < 0.8 * threshold.                      *)
C7_AnomaliesInOrder ==
    (IsCall("analyze_health_trends") /\ err = NoErr)
        => LET scores == args.health_scores
               I == AnomalyPositions(scores)
           IN  /\ Len(ret.anomalies) = Cardinality(I)
               /\ \A k \in 1..Cardinality(I) :
                     ret.anomalies[k] =
                         [date |-> args.dates[KthPosition(I, k)],
                          score |-> scores[KthPosition(I, k)],
                          severity |-> IF BelowScaledThreshold(scores, KthPosition(I, k))
                                       THEN "high" ELSE "medium"]

C7_TwoAnomalies ==
    /\ IsCall("analyze_health_trends")
    /\ err = NoErr
    /\ Len(ret.anomalies) = 2
    /\ ret.anomalies[1].severity = "medium"
    /\ ret.anomalies[2].severity = "high"
    /\ ret.anomalies[1].date < ret.anomalies[2].date

IsHigh(anomaly) == anomaly.severity = "high"

(* what a recommendation is about: priority, type, and the date it names   *)
(* (0 for a recommendation that names none)                                 *)
Gist(rec) ==
    <<rec.priority, rec.type, IF Len(rec.message) = 2 THEN rec.message[2] ELSE 0>>

(* C8: the recommendations are, in this order and nothing else: irrigation  *)
(* (high) iff mean_health < 0.5; inspection (medium) iff declining and      *)
(* abs(trend_rate) > 0.1; one intervention (high) per high anomaly, in      *)
(* anomaly order, naming its date.                                          *)
C8_RecommendationsExact ==
    IsCall("generate_recommendations")
        => LET a == args.analysis
               highs == SelectSeq(a.anomalies, IsHigh)
               e1 == IF a.mean_health.num * 2 < a.mean_health.den
                     THEN << <<"high", "irrigation", 0>> >> ELSE <<>>
               e2 == IF /\ a.trend = "declining"
                        /\ a.trend_rate # NaN
                        /\ Abs(a.trend_rate.num) * 10 > a.trend_rate.den
                     THEN << <<"medium", "inspection", 0>> >> ELSE <<>>
               e3 == [k \in 1..Len(highs) |-> <<"high", "intervention", highs[k].date>>]
               got == ret.recommendations
           IN  /\ err = NoErr
               /\ [k \in 1..Len(got) |-> Gist(got[k])] = e1 \o e2 \o e3

C8_AllRulesFire ==
    /\ IsCall("generate_recommendations")
    /\ Len(args.analysis.anomalies) = 2
    /\ args.analysis.anomalies[1].severity = "medium"
    /\ args.analysis.trend_rate = Rat(-2, 10)
    /\ Len(ret.recommendations) = 3
    /\ ret.recommendations[3].type = "intervention"

(* C9 (as claimed): classify returns without error; 'healthy' on top gives  *)
(* disease_detected false, disease "none" (in either capitalisation) and    *)
(* that label's probability, with no severity or treatment; any other top   *)
(* label gives disease_detected true, the label's name, a severity, and the *)
(* table's treatment or an empty plan.                                      *)
C9_ClassifyReturns ==
    IsCall("detect_crop_disease")
        => LET top == ArgMax(args.predictions)
               name == disease_classes[top + 1]
           IN  /\ err = NoErr
               /\ IF top = 0
                  THEN /\ DOMAIN ret = {"disease_detected", "disease", "confidence"}
                       /\ ~ret.disease_detected
                       /\ ret.disease \in {"none", "None"}
                       /\ ret.confidence = args.predictions[1]
                  ELSE /\ ret.disease_detected
                       /\ ret.disease = name
                       /\ "severity" \in DOMAIN ret
                       /\ ret.treatment = (IF name \in {"bacterial_blight", "brown_spot"}
                                           THEN treatments[name] ELSE {})

InUnitInterval(r) == r.num >= 0 /\ r.num <= r.den

(* C10 (as claimed): in a run of the pipeline on valid imagery with one     *)
(* date per image and at least 2 images, whatever the model returned, the   *)
(* pipeline does not fail and every returned health score lies in [0,1].    *)
C10_ScoresClamped ==
    (/\ IsCall("analyze_field_health")
     /\ Len(args.imagery) >= 2
     /\ Len(args.date_range) = Len(args.imagery)
     /\ \A i \in 1..Len(args.imagery) : NumBands(args.imagery[i]) >= 4)
        => /\ err = NoErr
           /\ \A i \in 1..Len(ret.health_scores) : InUnitInterval(ret.health_scores[i])

====
